---------------------------- MODULE Spec2Model ----------------------------
(***************************************************************************)
(* A model of the session channel manager of go-sshd: the channel          *)
(* dispatcher (handleChannels / handleChannel), the per-channel request    *)
(* loop with its exec, shell, pty-req and window-change cases, the child   *)
(* processes it starts, the two io.Copy goroutines of each process and     *)
(* the teardown closure they share through a sync.Once.                    *)
(*                                                                         *)
(* The model is of the non-windows build: server.go together with          *)
(* sshd_posix.go (runtime.GOOS # "windows").                               *)
(***************************************************************************)
EXTENDS Integers, Sequences, FiniteSets, TLC

(***************************************************************************)
(* Bounds of the model.                                                    *)
(***************************************************************************)
\* logical channels the client may open on the connection
NumChannels == 2
\* out-of-band requests the client sends, over all channels
MaxReqs == 2
\* child processes started, over all channels
MaxProcs == 2

Channels == 1..NumChannels

\* channel types a client may declare in a channel-open
ChannelTypes == {"session", "direct-tcpip"}

\* exit codes a child may terminate with
ExitCodes == {0, 1}

(***************************************************************************)
(* Request payloads, as the byte sequences of the wire sub-protocol.       *)
(***************************************************************************)
\* "ls" with its length, and "ls" with a declared length of 3
ExecPayloads == { <<0, 0, 0, 2, 108, 115>>, <<0, 0, 0, 3, 108, 115>> }
\* the default shell, and a named shell
ShellPayloads == { <<>>, <<120>> }
\* term "x", 80 x 24, the same cut after the terminal name, and no payload
PtyReqPayloads == { <<0, 0, 0, 1, 120, 0, 0, 0, 80, 0, 0, 0, 24>>,
                    <<0, 0, 0, 1, 120>>, << >> }
\* 132 x 43, the same cut after the width, and 70000 x 65579, which do not
\* fit 16 bits
WindowChangePayloads == { <<0, 0, 0, 132, 0, 0, 0, 43>>, <<0, 0, 0, 132>>,
                          <<0, 1, 17, 112, 0, 1, 0, 43>> }
\* a request type the switch has no case for
EnvPayloads == { <<>> }

PayloadsOf(t) ==
    CASE t = "exec" -> ExecPayloads
      [] t = "shell" -> ShellPayloads
      [] t = "pty-req" -> PtyReqPayloads
      [] t = "window-change" -> WindowChangePayloads
      [] OTHER -> EnvPayloads

RequestTypes == {"exec", "shell", "pty-req", "window-change", "env"}

\* the value of the loop variable req before the first request arrived
NoRequest == [type |-> "none", payload |-> <<>>, replied |-> FALSE]

Requests ==
    UNION { { [type |-> t, payload |-> b, replied |-> FALSE] : b \in PayloadsOf(t) }
            : t \in RequestTypes }

(***************************************************************************)
(* The codec: binary.BigEndian and the parse functions of server.go.       *)
(***************************************************************************)
\* binary.BigEndian.Uint32 reads b[0..3]; it panics on a shorter slice
Uint32Panics(b) == Len(b) < 4

Uint32(b) == b[1] * 16777216 + b[2] * 65536 + b[3] * 256 + b[4]

\* b[k:] of Go, k counted from 0
SliceFrom(b, k) == SubSeq(b, k + 1, Len(b))

parseDimsPanics(b) == Uint32Panics(b) \/ Uint32Panics(SliceFrom(b, 4))

parseDims(b) == [w |-> Uint32(b), h |-> Uint32(SliceFrom(b, 4))]

\* parseCommand: "panic" when the length prefix cannot be read, "fatal"
\* (log.Fatalf) when the declared length is not the length of the command
parseCommandResult(b) ==
    IF Uint32Panics(b) THEN "panic"
    ELSE IF Len(SliceFrom(b, 4)) # Uint32(b) THEN "fatal"
    ELSE "ok"

parseCommand(b) == SliceFrom(b, 4)

\* case "pty-req": termLen := req.Payload[3] is one byte, and termLen+4 is
\* computed in that byte
PtyDimsOffset(b) == (b[4] + 4) % 256

PtyReqPanics(b) ==
    \/ Len(b) < 4
    \/ PtyDimsOffset(b) > Len(b)
    \/ parseDimsPanics(SliceFrom(b, PtyDimsOffset(b)))

PtyReqDims(b) == parseDims(SliceFrom(b, PtyDimsOffset(b)))

\* the four bytes of u, 0 <= u < 2^31, most significant first
Bytes32(u) ==
    << u \div 16777216, (u \div 65536) % 256, (u \div 256) % 256, u % 256 >>

\* binary.Write(&b, binary.BigEndian, exitStatus) of an int32: two's
\* complement, so the bytes of a negative v are those of -v-1 inverted
BigEndianInt32(v) ==
    IF v >= 0 THEN Bytes32(v)
    ELSE [k \in 1..4 |-> 255 - Bytes32(-v - 1)[k]]

\* the struct filled with the two dimensions exchanged
WinsizeSwapped(w, h) == [Width |-> h % 65536, Height |-> w % 65536]

\* winsize{Width: uint16(w), Height: uint16(h)}
Winsize(w, h) == [Width |-> w % 65536, Height |-> h % 65536]

ExitStatusMsg(code) ==
    [type |-> "exit-status", wantReply |-> FALSE, payload |-> BigEndianInt32(code)]

(***************************************************************************)
(* The state.                                                              *)
(***************************************************************************)
VARIABLES
    ctype,      \* ctype[c]: the type declared by the channel-open of c
    stage,      \* stage[c]: where handleChannel(c) is
    reject,     \* reject[c]: the reason given to newChannel.Reject
    handlers,   \* handlers[c]: request-loop goroutines started for c
    loop,       \* loop[c]: position of the request loop of c
    req,        \* req[c]: the request the loop of c took last, and whether
                \* req.Reply was called on it
    shellf,     \* shellf[c]: 0 for nil, else the process of the *ShellFile
    replies,    \* replies[c]: calls of req.Reply on c
    nreq,       \* nreq[c]: requests the request loop of c has taken
    procs,      \* the child processes started, in order of start
    closed,     \* closed[c]: calls of connection.Close() on c
    sent,       \* sent[c]: the out-of-band messages sent on c
    crashed,    \* NoCrash, or how the server process died and in which
                \* channel's goroutine: a panic, or log.Fatalf ("fatal")
    sListener,  \* s.listener: "nil" or "l"
    sClosed,    \* s.closed
    sMu,        \* s.mu: "free", or the task that holds it
    lsock,      \* the listener l: "open" or "closed"
    servePc,    \* where the task that called Serve(l) is
    isClosedVal,\* the local closed of isClosed
    serveRet,   \* what Serve returned: "none" before it returns
    closePc,    \* where the task that calls Close() is
    conns,      \* connections handed to handleChannels
    codecIn,    \* the request handed to the dimension codec
    codecOut    \* what the codec made of its payload

NoCrash == [kind |-> "none", ch |-> 0]

Crash(kind, c) == [kind |-> kind, ch |-> c]

\* the fields of the Server and the tasks of Serve and Close
serverVars == << sListener, sClosed, sMu, lsock, servePc, isClosedVal, serveRet,
                 closePc, conns >>

codecVars == << codecIn, codecOut >>

vars == << ctype, stage, reject, handlers, loop, req, shellf, replies, nreq,
           procs, closed, sent, crashed, serverVars, codecVars >>

\* what the request loops, the children and the copy goroutines never touch
dispatchVars == << ctype, stage, reject, handlers, serverVars, codecVars >>

sessionVars == << ctype, stage, reject, handlers, loop, req, shellf, replies,
                  nreq, procs, closed, sent, crashed >>

Pids == 1..Len(procs)

ProcsOf(c) == { i \in Pids : procs[i].ch = c }

\* Bound: a shell or exec request has started a child process on c
Bound(c) == ProcsOf(c) # {}

\* no channel-open has arrived yet
InitSession ==
    /\ ctype = [c \in Channels |-> "none"]
    /\ stage = [c \in Channels |-> "none"]
    /\ reject = [c \in Channels |-> "none"]
    /\ handlers = [c \in Channels |-> 0]
    /\ loop = [c \in Channels |-> "none"]
    /\ req = [c \in Channels |-> NoRequest]
    /\ shellf = [c \in Channels |-> 0]
    /\ replies = [c \in Channels |-> 0]
    /\ nreq = [c \in Channels |-> 0]
    /\ procs = << >>
    /\ closed = [c \in Channels |-> 0]
    /\ sent = [c \in Channels |-> << >>]
    /\ crashed = NoCrash

\* what the codec returns: "none" before it ran, "panic" for a run-time panic
NoDims == [status |-> "none", w |-> 0, h |-> 0]

\* the codec at rest
InitCodecIdle ==
    /\ codecIn = [type |-> "none", payload |-> << >>]
    /\ codecOut = NoDims

\* Serve(l) has stored the listener, has accepted one connection and handed
\* it to handleChannels, and waits in Accept; Close() was not called
Init ==
    /\ InitSession
    /\ InitCodecIdle
    /\ sListener = "l"
    /\ sClosed = FALSE
    /\ sMu = "free"
    /\ lsock = "open"
    /\ servePc = "accept"
    /\ isClosedVal = FALSE
    /\ serveRet = "none"
    /\ closePc = "idle"
    /\ conns = 1

(***************************************************************************)
(* The channel dispatcher.                                                 *)
(***************************************************************************)
\* the dispatcher without its check of the channel type
IsSessionAny(t) == TRUE

IsSession(t) == t = "session"

\* handleChannels takes the next channel-open from chans (the channels are
\* numbered in the order of their arrival) and starts handleChannel, which
\* runs up to the start of the request loop
HandleChannel(c, t) ==
    /\ crashed = NoCrash
    /\ stage[c] = "none"
    /\ c > 1 => stage[c - 1] # "none"
    /\ ctype' = [ctype EXCEPT ![c] = t]
    /\ IF ~IsSession(t)
       THEN /\ stage' = [stage EXCEPT ![c] = "rejected"]
            /\ reject' = [reject EXCEPT ![c] = "UnknownChannelType"]
            /\ UNCHANGED << handlers, loop >>
       ELSE \E ok \in BOOLEAN :
              IF ok
              THEN /\ stage' = [stage EXCEPT ![c] = "accepted"]
                   /\ handlers' = [handlers EXCEPT ![c] = @ + 1]
                   /\ loop' = [loop EXCEPT ![c] = "recv"]
                   /\ UNCHANGED reject
              ELSE /\ stage' = [stage EXCEPT ![c] = "acceptFailed"]
                   /\ UNCHANGED << reject, handlers, loop >>
    /\ UNCHANGED << req, shellf, replies, nreq, procs, closed, sent, crashed,
                    serverVars, codecVars >>

(***************************************************************************)
(* The request loop.                                                       *)
(***************************************************************************)
\* the requests that start a process when the handler accepts them
StartsProcess(r) ==
    \/ r.type = "exec"
    \/ r.type = "shell" /\ r.payload = << >>

RECURSIVE SumTo(_, _)
SumTo(f, n) == IF n = 0 THEN 0 ELSE f[n] + SumTo(f, n - 1)

\* a second consumer of the request stream, taking a request while the loop
\* is still in the handling of the one before
TakesWhileHandling(c, r) ==
    /\ loop[c] \in {"recv", "exec2"}
    /\ crashed = NoCrash
    /\ StartsProcess(r) => Len(procs) < MaxProcs
    /\ SumTo(nreq, NumChannels) < MaxReqs
    /\ nreq' = [nreq EXCEPT ![c] = @ + 1]

\* for req := range requests: the loop of c takes the request r
Takes(c, r) ==
    /\ loop[c] = "recv"
    /\ crashed = NoCrash
    /\ StartsProcess(r) => Len(procs) < MaxProcs
    /\ SumTo(nreq, NumChannels) < MaxReqs
    /\ nreq' = [nreq EXCEPT ![c] = @ + 1]

RecognizedTypes == {"exec", "shell", "pty-req", "window-change"}

\* a switch whose unmatched types fall into the last acknowledged case
SwitchCaseDefaultPty(t) == IF t \in RecognizedTypes THEN t ELSE "pty-req"

\* switch req.Type: the case taken, "none" when no case matches
SwitchCase(t) == IF t \in RecognizedTypes THEN t ELSE "none"

\* wrote: bytes the child has written to its standard output; copied: those
\* of them that io.Copy has written to the channel
NewProc(c, kind) ==
    [ch |-> c, kind |-> kind, child |-> "running", code |-> 0, once |-> FALSE,
     out |-> "copy", inp |-> "copy", status |-> << >>, closes |-> 0,
     winsize |-> Winsize(0, 0), wrote |-> 0, copied |-> 0]

\* req.Reply(true, nil) of the request r
Reply(c, r) ==
    /\ replies' = [replies EXCEPT ![c] = @ + 1]
    /\ req' = [req EXCEPT ![c] = [r EXCEPT !.replied = TRUE]]

\* the request r is handled without a reply
NoReply(c, r) ==
    /\ req' = [req EXCEPT ![c] = r]
    /\ UNCHANGED replies

\* case "exec" acknowledging only after the process was started
ExecStepsSpawnFirst == << "Spawn", "Reply" >>

\* the order of the two parts of case "exec"
ExecSteps == << "Reply", "Spawn" >>

\* case "exec" from parseCommand on: the command is decoded, the pipes are
\* made, the process is started and the two copy goroutines are started
ExecSpawn(c, r, next) ==
    /\ NoReply(c, r)
    /\ UNCHANGED shellf
    /\ IF parseCommandResult(r.payload) # "ok"
       THEN /\ crashed' = Crash(parseCommandResult(r.payload), c)
            /\ UNCHANGED << loop, procs, closed, sent >>
       ELSE \E res \in {"ok", "stdin-fail", "stdout-fail", "start-fail"} :
              CASE res = "ok" ->
                     /\ procs' = Append(procs, NewProc(c, "pipe"))
                     /\ loop' = [loop EXCEPT ![c] = next]
                     /\ UNCHANGED << closed, sent, crashed >>
                [] res = "stdin-fail" ->
                     \* close() calls in.Close() on the nil interface in
                     /\ crashed' = Crash("panic", c)
                     /\ UNCHANGED << loop, procs, closed, sent >>
                [] OTHER ->
                     \* close(): in.Close(), shell.Wait() fails with an error
                     \* that is no ExitError, exit-status 0, Close; return
                     /\ sent' = [sent EXCEPT ![c] = Append(@, ExitStatusMsg(0))]
                     /\ closed' = [closed EXCEPT ![c] = @ + 1]
                     /\ loop' = [loop EXCEPT ![c] = "returned"]
                     /\ UNCHANGED << procs, crashed >>

ExecDo(c, r, what, next) ==
    IF what = "Reply"
    THEN /\ Reply(c, r)
         /\ loop' = [loop EXCEPT ![c] = next]
         /\ UNCHANGED << shellf, procs, closed, sent, crashed >>
    ELSE ExecSpawn(c, r, next)

\* case "exec", its first part
HandleExec1(c, r) ==
    /\ SwitchCase(r.type) = "exec"
    /\ Takes(c, r)
    /\ ExecDo(c, r, ExecSteps[1], "exec2")
    /\ UNCHANGED dispatchVars

\* case "exec", its second part
HandleExec2(c) ==
    /\ crashed = NoCrash
    /\ loop[c] = "exec2"
    /\ ExecDo(c, req[c], ExecSteps[2], "recv")
    /\ UNCHANGED << dispatchVars, nreq >>

\* case "shell" without its check of the payload
AcceptsAnyShell(payload) == TRUE

\* if len(req.Payload) == 0
AcceptsShell(payload) == Len(payload) = 0

\* case "shell", with startShell of sshd_posix.go
HandleShell(c, r) ==
    /\ SwitchCase(r.type) = "shell"
    /\ Takes(c, r)
    /\ IF AcceptsShell(r.payload)
       THEN /\ Reply(c, r)
            /\ \E ok \in BOOLEAN :
                 IF ok
                 THEN /\ procs' = Append(procs, NewProc(c, "pty"))
                      /\ shellf' = [shellf EXCEPT ![c] = Len(procs) + 1]
                      /\ UNCHANGED << closed, crashed >>
                 ELSE \* pty.Start failed: close() closes the channel and
                      \* calls Wait on shell.Process, which is nil
                      /\ closed' = [closed EXCEPT ![c] = @ + 1]
                      /\ crashed' = Crash("panic", c)
                      /\ UNCHANGED << procs, shellf >>
       ELSE /\ NoReply(c, r)
            /\ UNCHANGED << procs, shellf, closed, crashed >>
    /\ UNCHANGED << dispatchVars, loop, sent >>

\* (sf *ShellFile).setWinsize reads sf.file: a nil sf panics
setWinsizePanics(sf) == sf = 0

setWinsize(sf, d) ==
    procs' = [procs EXCEPT ![sf].winsize = Winsize(d.w, d.h)]

\* case "pty-req"
HandlePtyReq(c, r) ==
    /\ SwitchCase(r.type) = "pty-req"
    /\ Takes(c, r)
    /\ IF PtyReqPanics(r.payload) \/ setWinsizePanics(shellf[c])
       THEN /\ crashed' = Crash("panic", c)
            /\ NoReply(c, r)
            /\ UNCHANGED procs
       ELSE /\ setWinsize(shellf[c], PtyReqDims(r.payload))
            /\ Reply(c, r)
            /\ UNCHANGED crashed
    /\ UNCHANGED << dispatchVars, loop, shellf, closed, sent >>

\* case "window-change"
HandleWindowChange(c, r) ==
    /\ SwitchCase(r.type) = "window-change"
    /\ Takes(c, r)
    /\ NoReply(c, r)
    /\ IF parseDimsPanics(r.payload) \/ setWinsizePanics(shellf[c])
       THEN /\ crashed' = Crash("panic", c)
            /\ UNCHANGED procs
       ELSE /\ setWinsize(shellf[c], parseDims(r.payload))
            /\ UNCHANGED crashed
    /\ UNCHANGED << dispatchVars, loop, shellf, closed, sent >>

\* a request type with no case: the switch does nothing
HandleOther(c, r) ==
    /\ SwitchCase(r.type) = "none"
    /\ Takes(c, r)
    /\ NoReply(c, r)
    /\ UNCHANGED << dispatchVars, loop, shellf, procs, closed, sent, crashed >>

(***************************************************************************)
(* The environment of a session: the child.                                *)
(***************************************************************************)
\* the child terminates
ChildExit(i, code) ==
    /\ crashed = NoCrash
    /\ procs[i].child = "running"
    /\ procs' = [procs EXCEPT ![i].child = "exited", ![i].code = code]
    /\ UNCHANGED << dispatchVars, loop, req, shellf, replies, nreq, closed,
                    sent, crashed >>

\* bytes a child writes to its standard output
MaxOut == 1

\* the child of an exec request writes a byte to its standard output
ChildWrite(i) ==
    /\ crashed = NoCrash
    /\ procs[i].kind = "pipe"
    /\ procs[i].child = "running"
    /\ procs[i].wrote < MaxOut
    /\ procs' = [procs EXCEPT ![i].wrote = @ + 1]
    /\ UNCHANGED << dispatchVars, loop, req, shellf, replies, nreq, closed,
                    sent, crashed >>

(***************************************************************************)
(* The two copy goroutines of a process and the teardown.                  *)
(***************************************************************************)
Dirs == {"out", "inp"}

Other(d) == IF d = "out" THEN "inp" ELSE "out"

PumpPc(p, d) == IF d = "out" THEN p.out ELSE p.inp

SetPump(p, d, pc) == IF d = "out" THEN [p EXCEPT !.out = pc] ELSE [p EXCEPT !.inp = pc]

\* io.Copy(connection, out) ends when the read of the child's output ends
\* (the child is gone) or a write to the closed channel fails; io.Copy(in,
\* connection) ends when the channel reads end-of-file, which the client
\* may send at any time
CopyEnds(p, d) ==
    IF d = "out"
    THEN \/ p.child # "running" /\ p.copied = p.wrote
         \/ p.child = "reaped"
         \/ closed[p.ch] > 0
    ELSE TRUE

\* io.Copy(connection, out) moves a byte of the child's output to the
\* channel: the read needs the pipe open (shell.Wait() closes it), the write
\* needs the channel open
CopyOut(i) ==
    LET p == procs[i] IN
    /\ crashed = NoCrash
    /\ p.out = "copy"
    /\ p.copied < p.wrote
    /\ p.child # "reaped"
    /\ closed[p.ch] = 0
    /\ procs' = [procs EXCEPT ![i].copied = @ + 1]
    /\ UNCHANGED << dispatchVars, loop, req, shellf, replies, nreq, closed,
                    sent, crashed >>

\* sync.Once: whether this call of Do runs the function
OnceRuns(done) == ~done

\* io.Copy returns and once.Do(close) is called.  The first caller runs
\* close, which begins with in.Close() (exec) or with connection.Close()
\* (shell); a later caller returns when the first call has returned
PumpEnd(i, d) ==
    LET p == procs[i] IN
    /\ crashed = NoCrash
    /\ PumpPc(p, d) = "copy"
    /\ CopyEnds(p, d)
    /\ IF OnceRuns(p.once)
       THEN IF p.kind = "pipe"
            THEN /\ procs' = [procs EXCEPT ![i] = SetPump([p EXCEPT !.once = TRUE], d, "wait")]
                 /\ UNCHANGED closed
            ELSE /\ procs' = [procs EXCEPT ![i] =
                        SetPump([p EXCEPT !.once = TRUE, !.closes = @ + 1], d, "wait")]
                 /\ closed' = [closed EXCEPT ![p.ch] = @ + 1]
       ELSE /\ PumpPc(p, Other(d)) = "end"
            /\ procs' = [procs EXCEPT ![i] = SetPump(p, d, "end")]
            /\ UNCHANGED closed
    /\ UNCHANGED << dispatchVars, loop, req, shellf, replies, nreq, sent,
                    crashed >>

\* shell.Wait() returns: the exit code of an ExitError, 0 for no error and
\* for any other error (Wait was already called)
WaitExitStatus(p) == IF p.child = "exited" THEN p.code ELSE 0

\* close of exec: shell.Wait() returns and exit-status is sent;
\* close of shell: shell.Process.Wait() returns
TeardownWait(i, d) ==
    LET p == procs[i] IN
    /\ crashed = NoCrash
    /\ PumpPc(p, d) = "wait"
    /\ p.child # "running"
    /\ IF p.kind = "pipe"
       THEN /\ sent' = [sent EXCEPT ![p.ch] = Append(@, ExitStatusMsg(WaitExitStatus(p)))]
            /\ procs' = [procs EXCEPT ![i] =
                   SetPump([p EXCEPT !.child = "reaped",
                                     !.status = BigEndianInt32(WaitExitStatus(p))],
                           d, "sent")]
       ELSE /\ procs' = [procs EXCEPT ![i] = SetPump([p EXCEPT !.child = "reaped"], d, "end")]
            /\ UNCHANGED sent
    /\ UNCHANGED << dispatchVars, loop, req, shellf, replies, nreq, closed,
                    crashed >>

\* close of exec: connection.Close()
TeardownClose(i, d) ==
    LET p == procs[i] IN
    /\ crashed = NoCrash
    /\ PumpPc(p, d) = "sent"
    /\ procs' = [procs EXCEPT ![i] = SetPump([p EXCEPT !.closes = @ + 1], d, "end")]
    /\ closed' = [closed EXCEPT ![p.ch] = @ + 1]
    /\ UNCHANGED << dispatchVars, loop, req, shellf, replies, nreq, sent,
                    crashed >>

Next ==
    \/ \E c \in Channels, t \in ChannelTypes : HandleChannel(c, t)
    \/ \E c \in Channels, r \in Requests : HandleExec1(c, r)
    \/ \E c \in Channels : HandleExec2(c)
    \/ \E c \in Channels, r \in Requests : HandleShell(c, r)
    \/ \E c \in Channels, r \in Requests : HandlePtyReq(c, r)
    \/ \E c \in Channels, r \in Requests : HandleWindowChange(c, r)
    \/ \E c \in Channels, r \in Requests : HandleOther(c, r)
    \/ \E i \in Pids, code \in ExitCodes : ChildExit(i, code)
    \/ \E i \in Pids : ChildWrite(i)
    \/ \E i \in Pids : CopyOut(i)
    \/ \E i \in Pids, d \in Dirs : PumpEnd(i, d)
    \/ \E i \in Pids, d \in Dirs : TeardownWait(i, d)
    \/ \E i \in Pids, d \in Dirs : TeardownClose(i, d)

Spec == Init /\ [][Next]_vars

\* the steps of process i that the server takes on its own: the outbound
\* copy moving a byte and ending, the inbound copy ending once the teardown has begun (before
\* that it ends when the client sends end-of-file), and the teardown
ServerStep(i) ==
    /\ i \in Pids
    /\ \/ CopyOut(i)
       \/ PumpEnd(i, "out")
       \/ procs[i].once /\ PumpEnd(i, "inp")
       \/ \E d \in Dirs : TeardownWait(i, d)
       \/ \E d \in Dirs : TeardownClose(i, d)

\* the goroutines of every process are scheduled fairly
Fairness == \A i \in 1..MaxProcs : WF_vars(ServerStep(i))

SpecFair == Spec /\ Fairness

(***************************************************************************)
(* The accept loop: Serve, Close and isClosed.  One task runs Serve(l),    *)
(* another may call Close() at any time.                                   *)
(***************************************************************************)
\* connections the clients make to the listener
MaxConns == 3

\* Serve: s.listener = l
ServeStore ==
    /\ servePc = "start"
    /\ sListener' = "l"
    /\ servePc' = "accept"
    /\ UNCHANGED << sClosed, sMu, lsock, isClosedVal, serveRet, closePc, conns >>

\* l.Accept() returns a connection, or an error: the only outcome on a closed
\* listener, and possible on an open one (the accept call itself fails)
ServeAccept ==
    /\ servePc = "accept"
    /\ \E r \in {"conn", "err"} :
         /\ r = "conn" => lsock = "open" /\ conns < MaxConns
         /\ servePc' = IF r = "conn" THEN "handshake" ELSE "isClosed"
    /\ UNCHANGED << sListener, sClosed, sMu, lsock, isClosedVal, serveRet,
                    closePc, conns >>

\* isClosed: s.mu.Lock()
ServeIsClosedLock ==
    /\ servePc = "isClosed"
    /\ sMu = "free"
    /\ sMu' = "Serve"
    /\ servePc' = "isClosed.read"
    /\ UNCHANGED << sListener, sClosed, lsock, isClosedVal, serveRet, closePc,
                    conns >>

\* isClosed: closed := s.closed
ServeIsClosedRead ==
    /\ servePc = "isClosed.read"
    /\ isClosedVal' = sClosed
    /\ servePc' = "isClosed.unlock"
    /\ UNCHANGED << sListener, sClosed, sMu, lsock, serveRet, closePc, conns >>

\* Serve reporting every failure of Accept
AcceptErrorAlways(isClosed) == "accept error"

\* if s.isClosed() { return nil }; return fmt.Errorf(...)
AcceptErrorReturn(isClosed) == IF isClosed THEN "nil" ELSE "accept error"

\* isClosed: s.mu.Unlock(), return closed; Serve returns
ServeIsClosedUnlock ==
    /\ servePc = "isClosed.unlock"
    /\ sMu' = "free"
    /\ serveRet' = AcceptErrorReturn(isClosedVal)
    /\ servePc' = "returned"
    /\ UNCHANGED << sListener, sClosed, lsock, isClosedVal, closePc, conns >>

\* ssh.NewServerConn: on success the connection's channels go to a new
\* handleChannels goroutine and the loop accepts again; on failure Serve
\* returns the error
ServeHandshake ==
    /\ servePc = "handshake"
    /\ \E ok \in BOOLEAN :
         IF ok
         THEN /\ conns' = conns + 1
              /\ servePc' = "accept"
              /\ UNCHANGED serveRet
         ELSE /\ serveRet' = "handshake error"
              /\ servePc' = "returned"
              /\ UNCHANGED conns
    /\ UNCHANGED << sListener, sClosed, sMu, lsock, isClosedVal, closePc >>

\* Close: s.mu.Lock()
CloseLock ==
    /\ closePc = "idle"
    /\ sMu = "free"
    /\ sMu' = "Close"
    /\ closePc' = "set"
    /\ UNCHANGED << sListener, sClosed, lsock, servePc, isClosedVal, serveRet,
                    conns >>

\* Close: s.closed = true
CloseSet ==
    /\ closePc = "set"
    /\ sClosed' = TRUE
    /\ closePc' = "unlock"
    /\ UNCHANGED << sListener, sMu, lsock, servePc, isClosedVal, serveRet, conns >>

\* Close: s.mu.Unlock()
CloseUnlock ==
    /\ closePc = "unlock"
    /\ sMu' = "free"
    /\ closePc' = "listener"
    /\ UNCHANGED << sListener, sClosed, lsock, servePc, isClosedVal, serveRet,
                    conns >>

\* Close: if s.listener == nil { return nil }; return s.listener.Close()
CloseListener ==
    /\ closePc = "listener"
    /\ lsock' = IF sListener = "nil" THEN lsock ELSE "closed"
    /\ closePc' = "returned"
    /\ UNCHANGED << sListener, sClosed, sMu, servePc, isClosedVal, serveRet,
                    conns >>

NoAccess == [field |-> "none", write |-> FALSE, locked |-> FALSE]

\* the field of the Server the next step of the Serve task reads or writes,
\* and whether the task holds s.mu there
ServeAccess ==
    CASE servePc = "start" ->
           [field |-> "listener", write |-> TRUE, locked |-> sMu = "Serve"]
      [] servePc = "isClosed.read" ->
           [field |-> "closed", write |-> FALSE, locked |-> sMu = "Serve"]
      [] OTHER -> NoAccess

\* the same for the task in Close
CloseAccess ==
    CASE closePc = "set" ->
           [field |-> "closed", write |-> TRUE, locked |-> sMu = "Close"]
      [] closePc = "listener" ->
           [field |-> "listener", write |-> FALSE, locked |-> sMu = "Close"]
      [] OTHER -> NoAccess

\* the server as NewServer returns it, Serve(l) just called
InitServerFresh ==
    /\ sListener = "nil"
    /\ sClosed = FALSE
    /\ sMu = "free"
    /\ lsock = "open"
    /\ servePc = "start"
    /\ isClosedVal = FALSE
    /\ serveRet = "none"
    /\ closePc = "idle"
    /\ conns = 0

InitServe ==
    /\ InitSession
    /\ InitCodecIdle
    /\ InitServerFresh

NextServe ==
    \/ ServeStore /\ UNCHANGED << sessionVars, codecVars >>
    \/ ServeAccept /\ UNCHANGED << sessionVars, codecVars >>
    \/ ServeIsClosedLock /\ UNCHANGED << sessionVars, codecVars >>
    \/ ServeIsClosedRead /\ UNCHANGED << sessionVars, codecVars >>
    \/ ServeIsClosedUnlock /\ UNCHANGED << sessionVars, codecVars >>
    \/ ServeHandshake /\ UNCHANGED << sessionVars, codecVars >>
    \/ CloseLock /\ UNCHANGED << sessionVars, codecVars >>
    \/ CloseSet /\ UNCHANGED << sessionVars, codecVars >>
    \/ CloseUnlock /\ UNCHANGED << sessionVars, codecVars >>
    \/ CloseListener /\ UNCHANGED << sessionVars, codecVars >>

SpecServe == InitServe /\ [][NextServe]_vars

\* the steps the task in Serve takes on its own: Accept is left to the
\* clients while the listener is open and returns once it is closed
ServeProgress ==
    /\ \/ ServeStore
       \/ lsock = "closed" /\ ServeAccept
       \/ ServeIsClosedLock
       \/ ServeIsClosedRead
       \/ ServeIsClosedUnlock
       \/ ServeHandshake
    /\ UNCHANGED << sessionVars, codecVars >>

\* the steps of Close once it was called
CloseProgress ==
    /\ \/ CloseSet
       \/ CloseUnlock
       \/ CloseListener
    /\ UNCHANGED << sessionVars, codecVars >>

\* both tasks are scheduled fairly
SpecServeFair == SpecServe /\ WF_vars(ServeProgress) /\ WF_vars(CloseProgress)

(***************************************************************************)
(* The dimension codec on its own: the decoding of case "pty-req" and of   *)
(* case "window-change", applied to one payload.                           *)
(***************************************************************************)
\* widths and heights 1..MaxDim, beside the fixed ones
MaxDim == 2

DimValues == (1..MaxDim) \cup {80, 70000}

\* lengths of the terminal name: short ones, those whose sum with 4 does not
\* fit a byte, and those that do not fit a byte themselves (255 is left out:
\* what the code decodes there, 0xFF787878, is beyond the integers of TLC)
TermLens == {0, 1, 5, 251, 252, 253, 254, 256, 257}

\* a pty-req payload as the client encodes it: the length of the terminal
\* name in four bytes, the name, the width and the height
PtyReqPayload(n, w, h) ==
    Bytes32(n) \o [k \in 1..n |-> 120] \o Bytes32(w) \o Bytes32(h)

WindowChangePayload(w, h) == Bytes32(w) \o Bytes32(h)

CodecInputs ==
    { [type |-> "pty-req", payload |-> PtyReqPayload(n, w, h)] :
        n \in TermLens, w \in DimValues, h \in DimValues }
    \cup
    { [type |-> "window-change", payload |-> WindowChangePayload(w, h)] :
        w \in DimValues, h \in DimValues }

Dims(d) == [status |-> "ok", w |-> d.w, h |-> d.h]

PanicDims == [status |-> "panic", w |-> 0, h |-> 0]

\* case "pty-req": termLen := req.Payload[3]; parseDims(req.Payload[termLen+4:])
DecodePtyReq ==
    /\ codecIn.type = "pty-req"
    /\ codecOut = NoDims
    /\ codecOut' = IF PtyReqPanics(codecIn.payload) THEN PanicDims
                   ELSE Dims(PtyReqDims(codecIn.payload))
    /\ UNCHANGED codecIn

\* case "window-change": parseDims(req.Payload)
DecodeWindowChange ==
    /\ codecIn.type = "window-change"
    /\ codecOut = NoDims
    /\ codecOut' = IF parseDimsPanics(codecIn.payload) THEN PanicDims
                   ELSE Dims(parseDims(codecIn.payload))
    /\ UNCHANGED codecIn

InitCodec ==
    /\ InitSession
    /\ InitServerFresh
    /\ codecIn \in CodecInputs
    /\ codecOut = NoDims

NextCodec ==
    \/ DecodePtyReq /\ UNCHANGED << sessionVars, serverVars >>
    \/ DecodeWindowChange /\ UNCHANGED << sessionVars, serverVars >>

SpecCodec == InitCodec /\ [][NextCodec]_vars

(***************************************************************************)
(* Properties.                                                             *)
(***************************************************************************)
\* the request loop of c takes a step of the handling of a request, which
\* is req'[c]: it takes the request and runs its case, or it runs the
\* second part of case "exec"
HandlerStep(c) ==
    \/ nreq'[c] = nreq[c] + 1
    \/ /\ loop[c] = "exec2"
       /\ \/ loop'[c] # "exec2"
          \/ crashed = NoCrash /\ crashed'.ch = c

ExitStatusCount(c) ==
    Cardinality({ k \in 1..Len(sent[c]) : sent[c][k].type = "exit-status" })

WellFormed(r) ==
    \/ r.type = "pty-req" /\ ~PtyReqPanics(r.payload)
    \/ r.type = "window-change" /\ ~parseDimsPanics(r.payload)

PtyBacked(c) == \E i \in ProcsOf(c) : procs[i].kind = "pty"

\* C1: over the life of a channel the teardown runs once: at most one
\* exit-status message is sent on it and connection.Close() is called on it
\* at most once, whatever requests the client sent.
C1_TeardownOncePerChannel ==
    \A c \in Channels : closed[c] <= 1 /\ ExitStatusCount(c) <= 1

\* C2: a shell or exec request on a channel that already has a child
\* process bound is rejected: no reply, no new process, and the session
\* state and the processes are left as they were.
C2_SecondBindRejected ==
    [][ \A c \in Channels :
          (HandlerStep(c) /\ Bound(c) /\ req'[c].type \in {"shell", "exec"})
          => /\ replies' = replies
             /\ ~req'[c].replied
             /\ procs' = procs
             /\ shellf' = shellf
             /\ closed' = closed
             /\ sent' = sent
             /\ crashed' = crashed ]_vars

\* C3: a channel owns at most one child process: at most one process that
\* was started for it is not yet reaped, and it is never bound to a second
\* process.
C3_AtMostOneChild ==
    \A c \in Channels :
      /\ Cardinality({ i \in ProcsOf(c) : procs[i].child # "reaped" }) <= 1
      /\ Cardinality(ProcsOf(c)) <= 1

\* C4: for every bound child, shell or exec, the teardown closes the
\* channel only after it has waited for the child and sent one exit-status
\* message, wantReply false, carrying the child's exit code as four
\* big-endian bytes.
C4_ExitStatusBeforeClose ==
    \A i \in Pids :
      procs[i].closes > 0 =>
        /\ procs[i].child = "reaped"
        /\ procs[i].status = BigEndianInt32(procs[i].code)
        /\ \E k \in 1..Len(sent[procs[i].ch]) :
             sent[procs[i].ch][k] =
               [type |-> "exit-status", wantReply |-> FALSE,
                payload |-> BigEndianInt32(procs[i].code)]

\* a step in which the process of an exec request is started, or in which
\* its start fails (the loop returns, or the server dies in the handler)
ExecSpawnAttempt(c) ==
    \/ /\ Len(procs') = Len(procs) + 1
       /\ procs'[Len(procs')].ch = c
       /\ procs'[Len(procs')].kind = "pipe"
    \/ loop[c] # "returned" /\ loop'[c] = "returned"
    \/ req'[c].type = "exec" /\ HandlerStep(c) /\ crashed' # crashed

\* C5: the reply to an exec request is sent before its process is spawned:
\* every step that starts the process, or fails to, is taken when the
\* request has already been answered, and sends no reply itself.
C5_ExecReplyBeforeSpawn ==
    [][ \A c \in Channels :
          ExecSpawnAttempt(c)
          => /\ req[c].type = "exec"
             /\ req[c].replied
             /\ replies[c] >= 1
             /\ replies' = replies ]_vars

\* C5 happens: one exec request has its process running, another one's
\* start failed and its loop returned, and both were answered.
C5_Witness ==
    \E c1, c2 \in Channels :
      /\ \E i \in ProcsOf(c1) : procs[i].kind = "pipe"
      /\ req[c1].type = "exec" /\ req[c1].replied /\ loop[c1] = "recv"
      /\ loop[c2] = "returned" /\ req[c2].replied /\ ProcsOf(c2) = {}

\* C6: a well-formed pty-req or window-change handled on a channel with no
\* PTY-backed process is a no-op: the server does not die, the session
\* state is unchanged, the loop goes on to the next request, and a pty-req
\* is answered.
C6_ResizeWithoutPtyIsNoOp ==
    [][ \A c \in Channels :
          (HandlerStep(c) /\ WellFormed(req'[c]) /\ ~PtyBacked(c))
          => /\ crashed' = NoCrash
             /\ loop'[c] = "recv"
             /\ procs' = procs
             /\ shellf' = shellf
             /\ closed' = closed
             /\ sent' = sent
             /\ req'[c].type = "pty-req" =>
                  replies'[c] = replies[c] + 1 /\ req'[c].replied ]_vars

\* C7: a shell request with a non-empty payload gets no reply, starts no
\* process and leaves the session as it was, with the loop ready for the
\* next request.
C7_NamedShellIgnored ==
    [][ \A c \in Channels :
          (HandlerStep(c) /\ req'[c].type = "shell" /\ Len(req'[c].payload) > 0)
          => /\ replies' = replies
             /\ ~req'[c].replied
             /\ procs' = procs
             /\ shellf' = shellf
             /\ closed' = closed
             /\ sent' = sent
             /\ crashed' = crashed
             /\ loop'[c] = "recv" ]_vars

\* C7 happens: a shell request with a payload was handled on a channel that
\* is still open and unbound.
C7_Witness ==
    \E c \in Channels :
      /\ req[c].type = "shell" /\ Len(req[c].payload) > 0
      /\ loop[c] = "recv"
      /\ ~req[c].replied /\ replies[c] = 0
      /\ ~Bound(c) /\ closed[c] = 0

\* C8: a request of a type other than exec, shell, pty-req, window-change
\* gets no reply and changes nothing, and the loop goes on to the next
\* request.
C8_UnknownRequestIgnored ==
    [][ \A c \in Channels :
          (HandlerStep(c)
             /\ req'[c].type \notin {"exec", "shell", "pty-req", "window-change"})
          => /\ replies' = replies
             /\ ~req'[c].replied
             /\ procs' = procs
             /\ shellf' = shellf
             /\ closed' = closed
             /\ sent' = sent
             /\ crashed' = crashed
             /\ loop'[c] = "recv" ]_vars

\* C8 happens: an env request was handled on a channel with a running
\* process, and the loop waits for the next request.
C8_Witness ==
    \E c \in Channels :
      /\ req[c].type = "env"
      /\ loop[c] = "recv"
      /\ ~req[c].replied
      /\ \E i \in ProcsOf(c) : procs[i].child = "running"

\* C9: in every session state a well-formed pty-req gets exactly one reply
\* and a window-change gets none.
C9_ReplyPolicy ==
    [][ \A c \in Channels :
          (HandlerStep(c) /\ WellFormed(req'[c]))
          => /\ req'[c].type = "pty-req" =>
                  replies'[c] = replies[c] + 1 /\ req'[c].replied
             /\ req'[c].type = "window-change" =>
                  replies' = replies /\ ~req'[c].replied ]_vars

\* C10: a channel-open of a type other than "session" is rejected with
\* UnknownChannelType, is never accepted and gets no request loop and no
\* process; an accepted channel-open is of type "session" and gets exactly
\* one request loop.
C10_Dispatch ==
    \A c \in Channels :
      /\ ctype[c] \notin {"none", "session"}
         => /\ stage[c] = "rejected"
            /\ reject[c] = "UnknownChannelType"
      /\ ctype[c] # "session"
         => /\ stage[c] # "accepted"
            /\ handlers[c] = 0
            /\ loop[c] = "none"
            /\ ProcsOf(c) = {}
      /\ stage[c] = "accepted" => ctype[c] = "session" /\ handlers[c] = 1
      /\ handlers[c] <= 1

\* C10 happens: one channel-open was rejected, another was accepted and its
\* request loop runs.
C10_Witness ==
    \E c1, c2 \in Channels :
      /\ stage[c1] = "rejected" /\ ctype[c1] = "direct-tcpip"
      /\ stage[c2] = "accepted" /\ handlers[c2] = 1 /\ loop[c2] # "none"

\* Accept has just failed in Serve
AcceptFailed == servePc = "isClosed"

\* Close() was called: it holds or has held the mutex
CloseCalled == closePc # "idle"

HandshakeFails ==
    /\ servePc = "handshake"
    /\ servePc' # "handshake"
    /\ conns' = conns

\* C12: a failed handshake aborts only that connection: Serve does not
\* return because of it and goes on to accept the next connection.
C12_HandshakeFailureKeepsServing ==
    [][ HandshakeFails => servePc' = "accept" /\ serveRet' = "none" ]_vars

\* the length an exec payload declares is not the length of its command
LengthMismatch(b) == Len(b) >= 4 /\ Uint32(b) # Len(b) - 4

\* C13: an exec request whose declared length differs from the length of
\* the command is an error of that request alone: no process is started for
\* it, the server keeps running and the other channels are left as they are.
C13_ExecLengthMismatchContained ==
    [][ \A c \in Channels :
          (HandlerStep(c) /\ req'[c].type = "exec"
             /\ LengthMismatch(req'[c].payload))
          => /\ crashed' = NoCrash
             /\ procs' = procs
             /\ \A d \in Channels \ {c} :
                  loop'[d] = loop[d] /\ closed'[d] = closed[d] ]_vars

\* the payload of r is shorter than the layout of its type requires
ShortPayload(r) ==
    \/ r.type = "window-change" /\ Len(r.payload) < 8
    \/ /\ r.type = "pty-req"
       /\ \/ Len(r.payload) < 4
          \/ Len(r.payload) < 4 + Uint32(r.payload) + 8

\* C14: a pty-req or window-change with a payload shorter than its layout
\* fails only its channel: no resize is applied, the server keeps running
\* and the other channels are left as they are.
C14_ShortPayloadContained ==
    [][ \A c \in Channels :
          (HandlerStep(c) /\ ShortPayload(req'[c]))
          => /\ crashed' = NoCrash
             /\ procs' = procs
             /\ \A d \in Channels \ {c} :
                  loop'[d] = loop[d] /\ closed'[d] = closed[d] ]_vars

\* the handler of c tried to start the child of a well-formed exec or shell
\* request in this step, and no child was started
SpawnFails(c) ==
    /\ HandlerStep(c)
    /\ procs' = procs
    /\ \/ /\ loop[c] = "exec2"
          /\ req'[c].type = "exec"
          /\ parseCommandResult(req'[c].payload) = "ok"
       \/ /\ req'[c].type = "shell"
          /\ Len(req'[c].payload) = 0

\* C15: when starting the child fails, for exec and for shell, the handler
\* does not crash and the channel is closed exactly once.
C15_SpawnFailureClosesOnce ==
    [][ \A c \in Channels :
          SpawnFails(c)
          => /\ crashed' = NoCrash
             /\ closed'[c] = closed[c] + 1 ]_vars

\* the width and the height at offset off of b, as two big-endian uint32
DimsAt(b, off) ==
    [status |-> "ok", w |-> Uint32(SliceFrom(b, off)),
                      h |-> Uint32(SliceFrom(b, off + 4))]

\* the length of the terminal name a pty-req payload declares
DeclaredTermLen(b) == Uint32(b)

\* C16: for a well-formed pty-req payload and any length of the terminal
\* name, the decoded width and height are the two big-endian uint32 at
\* offset 4 + termLen of the payload.
C16_PtyReqDimsAtOffset ==
    ( /\ codecIn.type = "pty-req"
      /\ codecOut # NoDims
      /\ Len(codecIn.payload) >= 4 + DeclaredTermLen(codecIn.payload) + 8 )
    => codecOut = DimsAt(codecIn.payload, 4 + DeclaredTermLen(codecIn.payload))

\* the teardown of the exec process i waits for its child in this step
ExecWaitStep(i) ==
    /\ procs[i].kind = "pipe"
    /\ procs[i].child = "exited"
    /\ procs'[i].child = "reaped"

\* C17: the exec teardown never brings the server down: a child that exited
\* with a code has that code reported, a wait that yields no exit code (the
\* child was never started) has 0 reported and the channel closed.
C17_ExecExitStatusFallback ==
    [][ \A c \in Channels :
          /\ (SpawnFails(c) /\ req'[c].type = "exec")
             => /\ crashed' = NoCrash
                /\ sent'[c] = Append(sent[c], ExitStatusMsg(0))
                /\ closed'[c] = closed[c] + 1
          /\ \A i \in ProcsOf(c) :
               ExecWaitStep(i)
               => /\ crashed' = NoCrash
                  /\ sent'[c] = Append(sent[c], ExitStatusMsg(procs[i].code)) ]_vars

\* the handler of c starts a child in this step
SpawnSucceeds(c) ==
    /\ Len(procs') = Len(procs) + 1
    /\ procs'[Len(procs')].ch = c

\* C18: the requests of a channel are handled one after the other by one
\* task: a request is taken only when the handling of the one before is
\* complete, the handling in progress stays with its request, and a handler
\* that has started a child goes back to the loop with the child running.
C18_RequestsInArrivalOrder ==
    [][ \A c \in Channels :
          /\ handlers[c] <= 1
          /\ nreq'[c] # nreq[c]
             => loop[c] = "recv" /\ nreq'[c] = nreq[c] + 1
          /\ loop[c] = "exec2"
             => /\ nreq'[c] = nreq[c]
                /\ req'[c].type = req[c].type
                /\ req'[c].payload = req[c].payload
          /\ SpawnSucceeds(c)
             => /\ loop'[c] = "recv"
                /\ procs'[Len(procs')].child = "running" ]_vars

\* C18 happens: a window-change was handled on a channel after its shell
\* request, with the shell still running and both copy goroutines active.
C18_Witness ==
    \E c \in Channels :
      /\ nreq[c] = 2
      /\ req[c].type = "window-change"
      /\ loop[c] = "recv"
      /\ shellf[c] # 0
      /\ procs[shellf[c]].child = "running"
      /\ procs[shellf[c]].out = "copy" /\ procs[shellf[c]].inp = "copy"
      /\ procs[shellf[c]].winsize = Winsize(132, 43)

\* the two tasks are about to access the same field, one of them writing
ConflictingAccess ==
    /\ ServeAccess.field # "none"
    /\ ServeAccess.field = CloseAccess.field
    /\ ServeAccess.write \/ CloseAccess.write

\* C19: s.closed is the only state the tasks of Serve and Close share, and
\* it is read and written only with s.mu held: in no reachable state are the
\* two tasks about to access the same field of the Server, one of them
\* writing.
C19_SharedStateUnderMutex ==
    /\ ~ConflictingAccess
    /\ ServeAccess.field = "closed" => ServeAccess.locked
    /\ CloseAccess.field = "closed" => CloseAccess.locked

\* the child of process i has exited
ChildGone(i) == i \in Pids /\ procs[i].child # "running"

\* the teardown of process i has closed the channel and both copy goroutines
\* have returned
TornDown(i) ==
    /\ i \in Pids
    /\ procs[i].closes > 0
    /\ procs[i].out = "end" /\ procs[i].inp = "end"

\* C20: once the child of a bound session has exited, the teardown fires,
\* the channel is closed and both copy goroutines return, with no further
\* action of the client.
C20_TeardownAfterExit ==
    \A i \in 1..MaxProcs : ChildGone(i) ~> TornDown(i)

\* C21: in an exec session every byte the child wrote to its standard
\* output has been written to the channel when the teardown of the session
\* closes the channel, whichever copy goroutine ran the teardown.
C21_OutputBeforeClose ==
    \A i \in Pids :
      (procs[i].kind = "pipe" /\ procs[i].closes > 0)
      => procs[i].copied = procs[i].wrote

\* C22: whenever Close has returned, Serve eventually returns, also when
\* Close ran before Serve stored the listener.
C22_ServeReturnsAfterClose ==
    (closePc = "returned") ~> (servePc = "returned")

\* the width and height the handler decodes from the payload of r
DecodedDims(r) ==
    IF r.type = "pty-req" THEN PtyReqDims(r.payload) ELSE parseDims(r.payload)

\* C23: a pty-req or window-change handled on a session with a PTY sets the
\* size of the PTY to the decoded width and height, each reduced to its low
\* 16 bits, width and height not exchanged, and the request is not rejected.
C23_WinsizeLow16Bits ==
    [][ \A c \in Channels :
          (HandlerStep(c) /\ WellFormed(req'[c]) /\ shellf[c] # 0)
          => /\ crashed' = NoCrash
             /\ procs'[shellf[c]].winsize =
                  [Width |-> DecodedDims(req'[c]).w % 65536,
                   Height |-> DecodedDims(req'[c]).h % 65536] ]_vars

\* C23 happens: a window-change of 70000 x 65579 was handled on a session
\* with a PTY, which now has the size 4464 x 43.
C23_Witness ==
    \E c \in Channels :
      /\ shellf[c] # 0
      /\ req[c].type = "window-change"
      /\ req[c].payload = <<0, 1, 17, 112, 0, 1, 0, 43>>
      /\ procs[shellf[c]].winsize = [Width |-> 4464, Height |-> 43]

=============================================================================
